---- MODULE Spec2Model ----
(***************************************************************************)
(* A model of scraping2.py: the run controller (run), the page             *)
(* orchestrator (scrape_page), the detail enricher (enrich_from_detail)    *)
(* with its per-run cache, the in-run deduplication and the append-only    *)
(* output table.                                                           *)
(*                                                                         *)
(* Optional values: None is the empty tuple, a present value is a          *)
(* non-empty tuple (<<"text">>, <<3>>).  A location is the pair            *)
(* <<text, d>> where d is the digit that follows the word "sector" in the  *)
(* text, or "" when the text names no sector.  A link is the triple        *)
(* <<section, slug, num>>: the URL /<section>/<slug>-<num>.html, or        *)
(* /<section>/<slug> when num = "".  The timestamp column Scraped_At is    *)
(* left out of the rows; nothing in the program reads it.                  *)
(***************************************************************************)
EXTENDS Integers, Sequences, FiniteSets, TLC

VARIABLES
    pc,            \* position of run(): "scrape", "cards", "backoff", "dedup", "summary", "done"
    page_num,      \* run: loop variable of the page loop
    attempt,       \* run: loop variable of the retry loop
    failure,       \* run: the exception caught by the retry loop ("none" outside the handler)
    cards,         \* scrape_page: the candidate cards of the rendered page
    idx,           \* scrape_page: position of the card loop
    rows,          \* scrape_page: rows built so far
    page_rows,     \* run: rows returned for the current page
    seen_ids,      \* run: listing ids already written in this run
    detail_cache,  \* run: listing id -> result of enrich_from_detail
    table,         \* the rows of OUTPUT_CSV appended by this run, in file order
    total_rows,    \* run: running total of appended rows
    debug,         \* files written under DEBUG_DIR
    fetches,       \* history: listing id -> number of calls of enrich_from_detail
    needed,        \* history: listing ids of cards that asked for enrichment
    last_fetch,    \* history: the latest call of enrich_from_detail, None before the first
    reported,      \* the two totals printed by the final summary, None before it
    wait,          \* run: the delay of the backoff sleep just finished, None otherwise
    lookup,        \* history: the id the latest pass of the card loop looked up in detail_cache
    arg,           \* the input of the function under check (extract_*, clean_text)
    ret            \* the value it returned

\* The variables of the function checks.
fn == <<arg, ret>>

vars == <<pc, page_num, attempt, failure, cards, idx, rows, page_rows, seen_ids,
          detail_cache, table, total_rows, debug, fetches, needed, last_fetch, reported,
          wait, lookup, fn>>

None == <<>>

\* The page budget of a run (MAX_PAGES = 20 in the source).
MAX_PAGES == 2

\* for attempt in range(1, 4)
MaxAttempts == 3

\* if len(rows) < 5
MinRows == 5

ENABLE_DETAIL_ENRICH == TRUE

(***************************************************************************)
(* Field Normalizer                                                        *)
(***************************************************************************)

\* The digit after "sector" in the location text.
extract_sector(location_info) ==
    IF location_info = None THEN None
    ELSE IF location_info[2] # "" THEN <<location_info[2]>>
    ELSE None

\* -(\d+)\.html, else the last path segment.
listing_id_from_link(link) ==
    IF link = None THEN None
    ELSE IF link[3] # "" THEN <<link[3]>>
    ELSE <<link[2]>>

\* "/oferta" in link
IsListingLink(link) == link # None /\ link[1] = "oferta"

\* a or b, on optional values none of which is an empty string
Or(a, b) == IF a # None THEN a ELSE b

\* dict.get(key)
Get(d, k) == IF k \in DOMAIN d THEN d[k] ELSE None

EmptyDict == [k \in {} |-> None]

(***************************************************************************)
(* The simulated site: the result pages it can render and the detail page  *)
(* of each listing.  A card is what lines 293-302 extract from it.         *)
(***************************************************************************)

Card(link, title, price, location, rooms, area) ==
    [link |-> link, title |-> title, price_raw |-> price,
     location_info |-> location, rooms |-> rooms, area |-> area]

Lk(slug, num) == <<"oferta", slug, num>>

Title == <<"Apartament 2 camere">>
Price == <<"95 000 EUR">>
LocS3 == <<"Bucuresti, Sector 3", "3">>
LocS5 == <<"Bucuresti, Sector 5", "5">>
LocNoSector == <<"Bucuresti, Titan", "">>

FullCard(num) == Card(Lk("apartament", num), Title, Price, LocS3, <<2>>, <<50>>)

\* Six cards with six different ids, every one of them retained.  Listing 2
\* shows no room count, listing 3 a location that names no sector, listing 4
\* only a price, a location and "0 camere".
PageA ==
    << FullCard("1"),
       Card(Lk("apartament", "2"), Title, Price, LocS3, None, <<60>>),
       Card(Lk("apartament", "3"), Title, None, LocNoSector, <<3>>, None),
       Card(Lk("apartament", "4"), None, Price, LocS3, <<0>>, None),
       FullCard("5"),
       FullCard("6") >>

\* Three cards; the second is listing 2 again, under another slug.
PageB ==
    << FullCard("7"),
       Card(Lk("garsoniera", "2"), Title, Price, LocS3, None, <<60>>),
       Card(Lk("apartament", "8"), Title, None, LocS3, <<1>>, <<41>>) >>

\* A card with a link and nothing else, a card whose link is no listing, a
\* card without a link, listing 3 twice (the second time with a price and
\* nothing else), and a link without a numeric id.
PageC ==
    << Card(Lk("apartament", "9"), None, None, None, None, None),
       Card(<<"agentie", "imobiliara", "">>, Title, Price, LocS3, <<2>>, <<50>>),
       Card(None, Title, Price, LocS3, <<2>>, <<50>>),
       Card(Lk("apartament", "3"), Title, None, LocNoSector, <<3>>, None),
       Card(Lk("studio", "3"), None, Price, None, None, None),
       Card(Lk("studio-central", ""), Title, Price, LocS3, <<1>>, <<30>>) >>

PageZero == << >>

Layouts == {PageA, PageB, PageC, PageZero}

\* What the detail page of a listing shows: its location and room count.
DetailPage(link) ==
    CASE link[3] = "2" -> [location |-> LocS5, rooms |-> <<4>>]
      [] link[3] = "3" -> [location |-> LocS5, rooms |-> <<2>>]
      [] link[3] = "9" -> [location |-> LocNoSector, rooms |-> None]
      [] OTHER -> [location |-> None, rooms |-> None]

(***************************************************************************)
(* Detail Enricher                                                         *)
(***************************************************************************)

\* Where a call of enrich_from_detail can raise.
FailPoints(need_location, need_rooms) ==
    {"none", "goto"}
      \cup (IF need_location THEN {"location"} ELSE {})
      \cup (IF need_rooms THEN {"rooms"} ELSE {})

\* An enricher whose handler returns an empty result, whatever was computed.
enrich_from_detail_drops_partial(link, need_location, need_rooms, fail) ==
    LET loc == DetailPage(link).location
        out1 == IF need_location
                THEN [Location_Info |-> loc, Sector |-> extract_sector(loc)]
                ELSE EmptyDict
        out2 == IF need_rooms
                THEN out1 @@ [Room_Number |-> DetailPage(link).rooms]
                ELSE out1
    IN  IF fail = "none" THEN [out |-> out2, slept |-> TRUE]
        ELSE [out |-> EmptyDict, slept |-> FALSE]

\* The result of the call and whether it reached its pacing sleep.
enrich_from_detail(link, need_location, need_rooms, fail) ==
    LET loc == DetailPage(link).location
        out1 == IF need_location
                THEN [Location_Info |-> loc, Sector |-> extract_sector(loc)]
                ELSE EmptyDict
        out2 == IF need_rooms
                THEN out1 @@ [Room_Number |-> DetailPage(link).rooms]
                ELSE out1
    IN  CASE fail = "goto"     -> [out |-> EmptyDict, slept |-> FALSE]
          [] fail = "location" -> [out |-> EmptyDict, slept |-> FALSE]
          [] fail = "rooms"    -> [out |-> out1, slept |-> FALSE]
          [] OTHER             -> [out |-> out2, slept |-> TRUE]

(***************************************************************************)
(* Page Orchestrator                                                       *)
(***************************************************************************)

\* need_location = (location_info is None) or (sector is None)
NeedLocation(c) == c.location_info = None \/ extract_sector(c.location_info) = None

\* A test that takes a count of 0 for a missing one (not rooms).
NeedRoomsFalsy(c) == c.rooms = None \/ c.rooms = <<0>>

\* need_rooms = (rooms is None)
NeedRooms(c) == c.rooms = None

\* if (need_location or need_rooms) and lid
WantsEnrichment(c) ==
    /\ ENABLE_DETAIL_ENRICH
    /\ NeedLocation(c) \/ NeedRooms(c)
    /\ listing_id_from_link(c.link) # None

\* A merge that prefers the detail page's location to the card's.
BuildRowOverwrites(c, cached, n) ==
    LET need_location == NeedLocation(c)
        need_rooms == NeedRooms(c)
        sector == extract_sector(c.location_info)
    IN  [listing_id     |-> listing_id_from_link(c.link),
         Property_Title |-> c.title,
         Price_Raw      |-> c.price_raw,
         Location_Info  |-> IF need_location
                            THEN Or(Get(cached, "Location_Info"), c.location_info)
                            ELSE c.location_info,
         Sector         |-> IF need_location
                            THEN Or(sector, Get(cached, "Sector"))
                            ELSE sector,
         Room_Number    |-> IF need_rooms
                            THEN (IF c.rooms # None THEN c.rooms
                                  ELSE Get(cached, "Room_Number"))
                            ELSE c.rooms,
         Area_m2        |-> c.area,
         Link           |-> c.link,
         Page           |-> n]

\* Lines 324-342: the card's fields, backfilled from the enrichment result.
BuildRow(c, cached, n) ==
    LET need_location == NeedLocation(c)
        need_rooms == NeedRooms(c)
        sector == extract_sector(c.location_info)
    IN  [listing_id     |-> listing_id_from_link(c.link),
         Property_Title |-> c.title,
         Price_Raw      |-> c.price_raw,
         Location_Info  |-> IF need_location
                            THEN Or(c.location_info, Get(cached, "Location_Info"))
                            ELSE c.location_info,
         Sector         |-> IF need_location
                            THEN Or(sector, Get(cached, "Sector"))
                            ELSE sector,
         Room_Number    |-> IF need_rooms
                            THEN (IF c.rooms # None THEN c.rooms
                                  ELSE Get(cached, "Room_Number"))
                            ELSE c.rooms,
         Area_m2        |-> c.area,
         Link           |-> c.link,
         Page           |-> n]

\* A retention test that looks at the link alone.
RetainedLinkOnly(row) == row.Link # None

\* A retention test that leaves the price out.
RetainedIgnoresPrice(row) ==
    /\ row.Link # None
    /\ \/ row.Property_Title # None
       \/ row.Location_Info # None

\* if row["Link"] and (row["Property_Title"] or row["Price_Raw"] or row["Location_Info"])
Retained(row) ==
    /\ row.Link # None
    /\ \/ row.Property_Title # None
       \/ row.Price_Raw # None
       \/ row.Location_Info # None

(***************************************************************************)
(* Run Controller                                                          *)
(***************************************************************************)

\* A dedup loop that tests against the ids seen before the page and adds the
\* ids of the page after the loop.
RECURSIVE DedupRowsSeenAfter(_, _)
DedupRowsSeenAfter(rs, seen) ==
    IF rs = << >> THEN [unique |-> << >>, seen |-> seen]
    ELSE LET r == Head(rs)
             lid == r.listing_id
             rest == DedupRowsSeenAfter(Tail(rs), seen)
         IN  IF lid # None /\ lid \in seen
             THEN rest
             ELSE [unique |-> <<r>> \o rest.unique,
                   seen |-> IF lid # None THEN rest.seen \cup {lid} ELSE rest.seen]

\* Lines 417-424: the rows kept by the dedup loop and the ids seen after it.
RECURSIVE DedupRows(_, _)
DedupRows(rs, seen) ==
    IF rs = << >> THEN [unique |-> << >>, seen |-> seen]
    ELSE LET r == Head(rs)
             lid == r.listing_id
         IN  IF lid # None /\ lid \in seen
             THEN DedupRows(Tail(rs), seen)
             ELSE LET rest == DedupRows(Tail(rs), IF lid # None THEN seen \cup {lid} ELSE seen)
                  IN  [unique |-> <<r>> \o rest.unique, seen |-> rest.seen]

\* An append that opens the file for writing.
append_rows_truncating(file, rs) ==
    IF rs = << >> THEN [file |-> file, added |-> 0]
    ELSE [file |-> rs, added |-> Len(rs)]

\* append_rows: the file after the call and the count it returns.
append_rows(file, rs) ==
    IF rs = << >> THEN [file |-> file, added |-> 0]
    ELSE [file |-> file \o rs, added |-> Len(rs)]

\* page_{n}.html
ZeroCardsKey(n) == <<"page", n>>

\* The low-yield snapshot written over the zero-card file.
LowRowsKeySameFile(n) == <<"page", n>>

\* page_{n}_lowrows.html
LowRowsKey(n) == <<"lowrows", n>>

Init ==
    /\ pc = "scrape"
    /\ page_num = 1
    /\ attempt = 1
    /\ failure = "none"
    /\ cards = << >>
    /\ idx = 0
    /\ rows = << >>
    /\ page_rows = << >>
    /\ seen_ids = {}
    /\ detail_cache = EmptyDict
    /\ table = << >>
    /\ total_rows = 0
    /\ debug = {}
    /\ fetches = EmptyDict
    /\ needed = {}
    /\ last_fetch = None
    /\ reported = None
    /\ wait = None
    /\ lookup = None
    /\ arg = None
    /\ ret = None

\* scrape_page, lines 265-289: the navigation raises.
GotoFails ==
    /\ pc = "scrape"
    /\ \E e \in {"timeout", "error"} : failure' = e
    /\ pc' = "backoff"
    /\ wait' = None
    /\ UNCHANGED <<page_num, attempt, cards, idx, rows, page_rows, seen_ids, detail_cache,
                   table, total_rows, debug, fetches, needed, last_fetch, reported, lookup, fn>>

\* scrape_page, lines 265-291: the page renders; with no card on it the
\* markup is saved and the call returns an empty list.
Goto ==
    /\ pc = "scrape"
    /\ \E found \in Layouts :
         IF found = << >>
         THEN /\ debug' = debug \cup {ZeroCardsKey(page_num)}
              /\ page_rows' = << >>
              /\ pc' = "dedup"
              /\ UNCHANGED <<cards, idx, rows>>
         ELSE /\ cards' = found
              /\ idx' = 1
              /\ rows' = << >>
              /\ pc' = "cards"
              /\ UNCHANGED <<debug, page_rows>>
    /\ wait' = None
    /\ UNCHANGED <<page_num, attempt, failure, seen_ids, detail_cache, table, total_rows,
                   fetches, needed, last_fetch, reported, lookup, fn>>

Count(lid) == IF lid \in DOMAIN fetches THEN fetches[lid] ELSE 0

\* A store that keeps only results with at least one field.
CacheStoreIfFilled(cache, lid, out) ==
    IF out = EmptyDict THEN cache ELSE (lid :> out) @@ cache

\* detail_cache[lid] = cached
CacheStore(cache, lid, out) == (lid :> out) @@ cache

\* scrape_page, lines 292-345: one pass of the card loop.
ProcessCard ==
    /\ pc = "cards"
    /\ idx <= Len(cards)
    /\ LET c == cards[idx]
           lid == listing_id_from_link(c.link)
       IN  IF ~IsListingLink(c.link)
           THEN /\ lookup' = None
                /\ UNCHANGED <<rows, detail_cache, fetches, needed, last_fetch>>
           ELSE IF ~WantsEnrichment(c)
           THEN /\ rows' = IF Retained(BuildRow(c, EmptyDict, page_num))
                           THEN Append(rows, BuildRow(c, EmptyDict, page_num))
                           ELSE rows
                /\ lookup' = None
                /\ UNCHANGED <<detail_cache, fetches, needed, last_fetch>>
           ELSE /\ needed' = needed \cup {lid}
                /\ lookup' = lid
                /\ IF lid \in DOMAIN detail_cache
                   THEN /\ rows' = IF Retained(BuildRow(c, detail_cache[lid], page_num))
                                   THEN Append(rows, BuildRow(c, detail_cache[lid], page_num))
                                   ELSE rows
                        /\ UNCHANGED <<detail_cache, fetches, last_fetch>>
                   ELSE \E fail \in FailPoints(NeedLocation(c), NeedRooms(c)) :
                          LET res == enrich_from_detail(c.link, NeedLocation(c), NeedRooms(c), fail)
                          IN  /\ detail_cache' = CacheStore(detail_cache, lid, res.out)
                              /\ fetches' = (lid :> Count(lid) + 1) @@ fetches
                              /\ last_fetch' = <<[page |-> page_num, attempt |-> attempt,
                                                  lid |-> lid, fail |-> fail,
                                                  slept |-> res.slept]>>
                              /\ rows' = IF Retained(BuildRow(c, res.out, page_num))
                                         THEN Append(rows, BuildRow(c, res.out, page_num))
                                         ELSE rows
    /\ idx' = idx + 1
    /\ UNCHANGED <<pc, page_num, attempt, failure, cards, page_rows, seen_ids, table,
                   total_rows, debug, reported, wait, fn>>

\* An exception that hands the rows built so far to the caller.
PageErrorKeepsRows ==
    /\ pc = "cards"
    /\ \E e \in {"timeout", "error"} : failure' = e
    /\ pc' = "backoff"
    /\ cards' = << >>
    /\ idx' = 0
    /\ page_rows' = rows
    /\ rows' = << >>
    /\ lookup' = None
    /\ UNCHANGED <<page_num, attempt, seen_ids, detail_cache, table, total_rows,
                   debug, fetches, needed, last_fetch, reported, wait, fn>>

\* scrape_page, lines 292-351: a call on the page or on a card raises outside
\* the detail enricher; the exception leaves scrape_page.
PageError ==
    /\ pc = "cards"
    /\ \E e \in {"timeout", "error"} : failure' = e
    /\ pc' = "backoff"
    /\ cards' = << >>
    /\ idx' = 0
    /\ rows' = << >>
    /\ lookup' = None
    /\ UNCHANGED <<page_num, attempt, page_rows, seen_ids, detail_cache, table, total_rows,
                   debug, fetches, needed, last_fetch, reported, wait, fn>>

\* scrape_page, lines 347-353: the low-yield snapshot and the return.
EndCards ==
    /\ pc = "cards"
    /\ idx > Len(cards)
    /\ debug' = IF Len(rows) < MinRows THEN debug \cup {LowRowsKey(page_num)} ELSE debug
    /\ page_rows' = rows
    /\ pc' = "dedup"
    /\ cards' = << >>
    /\ idx' = 0
    /\ rows' = << >>
    /\ lookup' = None
    /\ UNCHANGED <<page_num, attempt, failure, seen_ids, detail_cache, table, total_rows,
                   fetches, needed, last_fetch, reported, wait, fn>>

\* The steps of a second in which the jitter of random.random() is counted.
JitterSteps == 2

\* wait = 2.0 * attempt + random.random(), in units of 1/JitterSteps second.
backoff_delay(a, jitter) == 2 * a * JitterSteps + jitter

\* A retry loop that gives the run up when the last attempt has failed.
BackoffAborts ==
    /\ pc = "backoff"
    /\ failure' = "none"
    /\ IF attempt < MaxAttempts
       THEN /\ attempt' = attempt + 1
            /\ pc' = "scrape"
       ELSE /\ pc' = "summary"
            /\ UNCHANGED attempt
    /\ \E jitter \in 0..(JitterSteps - 1) : wait' = <<backoff_delay(attempt, jitter)>>
    /\ UNCHANGED <<page_num, cards, idx, rows, page_rows, seen_ids, detail_cache, table,
                   total_rows, debug, fetches, needed, last_fetch, reported, lookup, fn>>

\* A retry loop without an attempt budget.
BackoffRetriesForever ==
    /\ pc = "backoff"
    /\ failure' = "none"
    /\ pc' = "scrape"
    /\ \E jitter \in 0..(JitterSteps - 1) : wait' = <<backoff_delay(attempt, jitter)>>
    /\ UNCHANGED <<page_num, attempt, cards, idx, rows, page_rows, seen_ids, detail_cache,
                   table, total_rows, debug, fetches, needed, last_fetch, reported, lookup, fn>>

\* run, lines 407-414: the handler sleeps; the retry loop goes on or ends.
Backoff ==
    /\ pc = "backoff"
    /\ failure' = "none"
    /\ IF attempt < MaxAttempts
       THEN /\ attempt' = attempt + 1
            /\ pc' = "scrape"
       ELSE /\ pc' = "dedup"
            /\ UNCHANGED attempt
    /\ \E jitter \in 0..(JitterSteps - 1) : wait' = <<backoff_delay(attempt, jitter)>>
    /\ UNCHANGED <<page_num, cards, idx, rows, page_rows, seen_ids, detail_cache, table,
                   total_rows, debug, fetches, needed, last_fetch, reported, lookup, fn>>

\* run, lines 416-430 and the head of the next iteration (401-403).
SavePage ==
    /\ pc = "dedup"
    /\ LET d == DedupRows(page_rows, seen_ids)
           a == append_rows(table, d.unique)
       IN  /\ seen_ids' = d.seen
           /\ table' = a.file
           /\ total_rows' = total_rows + a.added
    /\ IF page_num < MAX_PAGES
       THEN /\ page_num' = page_num + 1
            /\ attempt' = 1
            /\ page_rows' = << >>
            /\ pc' = "scrape"
       ELSE /\ pc' = "summary"
            /\ UNCHANGED <<page_num, attempt, page_rows>>
    /\ wait' = None
    /\ UNCHANGED <<failure, cards, idx, rows, detail_cache, debug, fetches, needed,
                   last_fetch, reported, lookup, fn>>

\* A summary that prints the size of seen_ids as the cache size.
SummaryReportsSeen ==
    /\ pc = "summary"
    /\ reported' = <<[total |-> total_rows, cache |-> Cardinality(seen_ids)]>>
    /\ pc' = "done"
    /\ UNCHANGED <<page_num, attempt, failure, cards, idx, rows, page_rows, seen_ids,
                   detail_cache, table, total_rows, debug, fetches, needed, last_fetch,
                   wait, lookup, fn>>

\* run, lines 432-437: the final summary.
Summary ==
    /\ pc = "summary"
    /\ reported' = <<[total |-> total_rows, cache |-> Cardinality(DOMAIN detail_cache)]>>
    /\ pc' = "done"
    /\ UNCHANGED <<page_num, attempt, failure, cards, idx, rows, page_rows, seen_ids,
                   detail_cache, table, total_rows, debug, fetches, needed, last_fetch,
                   wait, lookup, fn>>

Next ==
    \/ GotoFails
    \/ Goto
    \/ ProcessCard
    \/ PageError
    \/ EndCards
    \/ Backoff
    \/ SavePage
    \/ Summary

Spec == Init /\ [][Next]_vars

\* The run is one sequential thread and every call it makes returns or
\* raises within its timeout, so a step that can be taken is taken.
LiveSpec == Spec /\ WF_vars(Next)

(***************************************************************************)
(* The run controller fed with simulated pages: scrape_page is replaced by *)
(* a page source that returns any short list of rows, with or without a    *)
(* listing id.                                                             *)
(***************************************************************************)

\* The longest simulated page.
MaxSimRows == 2

SimIds == {None, <<"1">>, <<"2">>}

\* A retained row; Area_m2 carries its position on the page.
SimRow(lid, i, n) ==
    [listing_id     |-> lid,
     Property_Title |-> Title,
     Price_Raw      |-> Price,
     Location_Info  |-> LocS3,
     Sector         |-> <<"3">>,
     Room_Number    |-> <<2>>,
     Area_m2        |-> <<i>>,
     Link           |-> IF lid = None THEN <<"oferta", "", "">> ELSE Lk("apartament", lid[1]),
     Page           |-> n]

\* scrape_page returns at its first attempt, with rows of any ids.
SimScrape ==
    /\ pc = "scrape"
    /\ \E k \in 0..MaxSimRows : \E ids \in [1..k -> SimIds] :
         page_rows' = [i \in 1..k |-> SimRow(ids[i], i, page_num)]
    /\ pc' = "dedup"
    /\ UNCHANGED <<page_num, attempt, failure, cards, idx, rows, seen_ids, detail_cache,
                   table, total_rows, debug, fetches, needed, last_fetch, reported, wait,
                   lookup, fn>>

NextDedup ==
    \/ SimScrape
    \/ SavePage
    \/ Summary

SpecDedup == Init /\ [][NextDedup]_vars

(***************************************************************************)
(* Field Normalizer and Selector Fallback Engine, called on their own.     *)
(* Here a string is the sequence of its characters, so that a text value   *)
(* is None or <<s>> with s such a sequence; << <<>> >> is the empty        *)
(* string.  The run stands still: pc is "call" before the call, "again"    *)
(* between two calls and "returned" after the last.                        *)
(***************************************************************************)

\* Everything of the run but pc.
run_state == <<page_num, attempt, failure, cards, idx, rows, page_rows, seen_ids,
               detail_cache, table, total_rows, debug, fetches, needed, last_fetch,
               reported, wait, lookup>>

\* The state of a process that has not started run().
Idle ==
    /\ page_num = 1
    /\ attempt = 1
    /\ failure = "none"
    /\ cards = << >>
    /\ idx = 0
    /\ rows = << >>
    /\ page_rows = << >>
    /\ seen_ids = {}
    /\ detail_cache = EmptyDict
    /\ table = << >>
    /\ total_rows = 0
    /\ debug = {}
    /\ fetches = EmptyDict
    /\ needed = {}
    /\ last_fetch = None
    /\ reported = None
    /\ wait = None
    /\ lookup = None

\* The characters of the input strings: one that is no whitespace and two
\* that str.strip() and the pattern \s both take for whitespace.
Chars == {"a", " ", "\t"}

IsSpace(ch) == ch \in {" ", "\t"}

\* The longest input string of clean_text.
MaxLen == 5

RECURSIVE lstrip(_)
lstrip(s) == IF s # << >> /\ IsSpace(Head(s)) THEN lstrip(Tail(s)) ELSE s

RECURSIVE rstrip(_)
rstrip(s) ==
    IF s # << >> /\ IsSpace(s[Len(s)]) THEN rstrip(SubSeq(s, 1, Len(s) - 1)) ELSE s

\* s.strip()
strip(s) == rstrip(lstrip(s))

\* re.sub(r"\s+", " ", s): every maximal run of whitespace becomes one space.
RECURSIVE sub_spaces(_)
sub_spaces(s) ==
    IF s = << >> THEN << >>
    ELSE IF IsSpace(Head(s)) THEN <<" ">> \o sub_spaces(lstrip(s))
    ELSE <<Head(s)>> \o sub_spaces(Tail(s))

\* A normalizer that collapses the whitespace without stripping the ends.
clean_text_unstripped(s) ==
    IF s = None \/ s[1] = << >> THEN None
    ELSE IF sub_spaces(s[1]) = << >> THEN None ELSE <<sub_spaces(s[1])>>

\* clean_text, lines 36-41
clean_text(s) ==
    IF s = None \/ s[1] = << >> THEN None
    ELSE LET t == sub_spaces(strip(s[1]))
         IN  IF t = << >> THEN None ELSE <<t>>

\* The strings of at most n characters.
Strings(n) == UNION {[1..k -> Chars] : k \in 0..n}

InitClean ==
    /\ pc = "call"
    /\ Idle
    /\ arg \in {None} \cup {<<s>> : s \in Strings(MaxLen)}
    /\ ret = None

\* y = clean_text(x)
CleanCall ==
    /\ pc = "call"
    /\ ret' = clean_text(arg)
    /\ pc' = "again"
    /\ UNCHANGED <<arg, run_state>>

\* clean_text(y)
CleanAgain ==
    /\ pc = "again"
    /\ ret' = clean_text(ret)
    /\ pc' = "returned"
    /\ UNCHANGED <<arg, run_state>>

NextClean ==
    \/ CleanCall
    \/ CleanAgain

SpecClean == InitClean /\ [][NextClean]_vars

\* The elements of a sequence.
Range(s) == {s[i] : i \in 1..Len(s)}

TITLE_SELECTORS ==
    << "[data-cy*='title']", "[data-testid*='title']", "h2", "h3", "a[title]",
       "a[aria-label]" >>

LOCATION_SELECTORS ==
    << "[data-cy*='location']", "[data-testid*='location']", "[data-cy*='address']",
       "[data-testid*='address']", "p:has-text('Sector')" >>

\* (EUR stands for the euro sign of the source.)
PRICE_SELECTORS ==
    << "[data-cy*='price']", "[data-testid*='price']", "p:has-text('EUR')",
       "span:has-text('EUR')" >>

\* A card is what its queries answer: found[sel] is None when no element
\* matches sel and else the inner_text() of the first that does; anchor is
\* None when the card has no a[href] and else the attributes of the first.
query_selector(card, sel) == card.found[sel]

get_attribute(el, a) == el[a]

RECURSIVE pick_from(_, _, _)
pick_from(el, attr_names, i) ==
    IF i > Len(attr_names) THEN None
    ELSE IF clean_text(get_attribute(el, attr_names[i])) # None
         THEN clean_text(get_attribute(el, attr_names[i]))
         ELSE pick_from(el, attr_names, i + 1)

\* pick_first_attr, lines 64-71
pick_first_attr(el, attr_names) ==
    IF el = None THEN None ELSE pick_from(el, attr_names, 1)

\* if t and len(t) >= n
LongEnough(t, n) == t # None /\ Len(t[1]) >= n

\* A loop that gives up at the first element found when its text is too short.
try_selectors_first_match(card, sels, n, i) ==
    LET hit == {k \in i..Len(sels) : query_selector(card, sels[k]) # None}
        k == CHOOSE k \in hit : \A j \in hit : k <= j
    IN  IF hit = {} THEN None
        ELSE IF LongEnough(clean_text(query_selector(card, sels[k])), n)
             THEN clean_text(query_selector(card, sels[k]))
             ELSE None

\* for sel in ..._SELECTORS: the loop of extract_title, extract_location and
\* extract_price from its i-th selector on.
RECURSIVE try_selectors(_, _, _, _)
try_selectors(card, sels, n, i) ==
    IF i > Len(sels) THEN None
    ELSE IF /\ query_selector(card, sels[i]) # None
            /\ LongEnough(clean_text(query_selector(card, sels[i])), n)
         THEN clean_text(query_selector(card, sels[i]))
         ELSE try_selectors(card, sels, n, i + 1)

\* extract_title, lines 132-144
extract_title(card) ==
    LET t == try_selectors(card, TITLE_SELECTORS, 3, 1)
        a == card.anchor
        v == pick_first_attr(a, <<"title", "aria-label">>)
    IN  IF t # None THEN t
        ELSE IF a # None /\ LongEnough(v, 3) THEN v
        ELSE None

\* extract_location, lines 155-162
extract_location(card) == try_selectors(card, LOCATION_SELECTORS, 2, 1)

\* extract_price, lines 164-171
extract_price(card) == try_selectors(card, PRICE_SELECTORS, 1, 1)

\* The most selectors of a chain that find an element in one card.
MaxElems == 2

\* The texts of the elements: empty, blank, and of 1, 2, 3 and 3 characters
\* once normalized.
Texts ==
    { << >>, <<" ">>, <<"a", " ">>, <<" ", "a", "b">>, <<"a", " ", "\t", "b">>,
      <<"a", "b", "c">> }

\* The values of the attributes: blank, and of 2 and 3 characters once
\* normalized.
AttrTexts == { <<" ">>, <<"x", "y">>, <<"x", "y", "z", " ">> }

Found(sels) ==
    { f \in [Range(sels) -> {None} \cup {<<t>> : t \in Texts}] :
        Cardinality({sel \in Range(sels) : f[sel] # None}) <= MaxElems }

\* An anchor with a title attribute is an a[title], one with an aria-label
\* an a[aria-label].
TitleCards ==
    { c \in [found : Found(TITLE_SELECTORS),
             anchor : {None} \cup [{"title", "aria-label"} ->
                                     {None} \cup {<<t>> : t \in AttrTexts}]] :
        c.anchor # None =>
            /\ c.anchor["title"] # None => c.found["a[title]"] # None
            /\ c.anchor["aria-label"] # None => c.found["a[aria-label]"] # None }

PlainCards(sels) == [found : Found(sels), anchor : {None}]

InitSelect ==
    /\ pc = "call"
    /\ Idle
    /\ arg \in [field : {"title"}, card : TitleCards]
                 \cup [field : {"location"}, card : PlainCards(LOCATION_SELECTORS)]
                 \cup [field : {"price"}, card : PlainCards(PRICE_SELECTORS)]
    /\ ret = None

TitleCall ==
    /\ pc = "call"
    /\ arg.field = "title"
    /\ ret' = extract_title(arg.card)
    /\ pc' = "returned"
    /\ UNCHANGED <<arg, run_state>>

LocationCall ==
    /\ pc = "call"
    /\ arg.field = "location"
    /\ ret' = extract_location(arg.card)
    /\ pc' = "returned"
    /\ UNCHANGED <<arg, run_state>>

PriceCall ==
    /\ pc = "call"
    /\ arg.field = "price"
    /\ ret' = extract_price(arg.card)
    /\ pc' = "returned"
    /\ UNCHANGED <<arg, run_state>>

NextSelect ==
    \/ TitleCall
    \/ LocationCall
    \/ PriceCall

SpecSelect == InitSelect /\ [][NextSelect]_vars

(***************************************************************************)
(* Properties                                                              *)
(***************************************************************************)

Last(s) == s[Len(s)]

IsPrefix(s, t) == Len(s) <= Len(t) /\ SubSeq(t, 1, Len(s)) = s

IdAbsent(r) == r.listing_id = None

\* The step is one pass of the card loop.
CardStep == pc = "cards" /\ idx' = idx + 1

\* The step calls enrich_from_detail.
FetchStep == fetches' # fetches

\* C1: in one run enrich_from_detail is called at most once per listing id;
\* a card whose id is already in detail_cache causes no call, leaves the
\* cache as it is and is backfilled from the stored result, whatever that
\* result holds.
C1_AtMostOneDetailFetch ==
    [][ /\ \A l \in DOMAIN fetches' : fetches'[l] <= 1
        /\ (CardStep /\ listing_id_from_link(cards[idx].link) \in DOMAIN detail_cache)
             => /\ ~FetchStep
                /\ detail_cache' = detail_cache
                /\ Len(rows') > Len(rows)
                     => Last(rows') = BuildRow(cards[idx],
                                               detail_cache[listing_id_from_link(cards[idx].link)],
                                               page_num)
      ]_vars

\* C1 witness: in a retry of a page the card just handled wanted enrichment,
\* its id was fetched once, in an earlier attempt of this page, and the
\* stored result is empty.
C1_Witness ==
    /\ pc = "cards"
    /\ attempt > 1
    /\ idx > 1
    /\ last_fetch # None
    /\ LET c == cards[idx - 1]
           lid == listing_id_from_link(c.link)
       IN  /\ IsListingLink(c.link)
           /\ WantsEnrichment(c)
           /\ lid \in DOMAIN detail_cache
           /\ detail_cache[lid] = EmptyDict
           /\ fetches[lid] = 1
           /\ last_fetch[1].lid = lid
           /\ last_fetch[1].page = page_num
           /\ last_fetch[1].attempt < attempt

NoDupIds(t) ==
    \A i, j \in 1..Len(t) :
        (i < j /\ t[i].listing_id # None) => t[i].listing_id # t[j].listing_id

\* C2: no two rows of the output table share a listing id that is present;
\* of the rows of a page, the dedup step appends exactly the rows without an
\* id and, for each id not in seen_ids, the first row of the page that has it.
C2_DedupByListingId ==
    [][ /\ NoDupIds(table')
        /\ pc = "dedup" =>
             LET new == SubSeq(table', Len(table) + 1, Len(table'))
                 First(i) ==
                     /\ page_rows[i].listing_id \notin seen_ids
                     /\ \A j \in 1..(i - 1) : page_rows[j].listing_id # page_rows[i].listing_id
             IN  /\ IsPrefix(table, table')
                 /\ SelectSeq(new, IdAbsent) = SelectSeq(page_rows, IdAbsent)
                 /\ \A i \in 1..Len(page_rows) :
                        page_rows[i].listing_id # None
                          => (page_rows[i] \in Range(new) <=> First(i))
      ]_vars

\* C2 witness: the last page returned a row whose id an earlier page had
\* written; that row is not in the table, and two rows without an id are.
C2_Witness ==
    /\ pc = "summary"
    /\ Len(page_rows) = 2
    /\ page_rows[1].listing_id # None
    /\ page_rows[1] \notin Range(table)
    /\ \E r \in Range(table) :
          r.listing_id = page_rows[1].listing_id /\ r.Page < page_num
    /\ Len(SelectSeq(table, IdAbsent)) = 2

\* C3: a page gets at least one and at most three calls of scrape_page, the
\* first call that returns ends the retry loop, and after a third failure
\* the run goes on to the dedup step of that page with no rows, and from
\* there to the next page or the summary.
C3_BoundedRetries ==
    [][ /\ attempt' \in 1..3
        /\ (pc = "backoff" /\ pc' = "scrape")
             => (attempt < 3 /\ attempt' = attempt + 1 /\ page_num' = page_num)
        /\ (pc = "backoff" /\ attempt = 3)
             => (pc' = "dedup" /\ page_num' = page_num /\ page_rows' = << >>)
        /\ (pc \in {"scrape", "cards"} /\ pc' = "dedup") => attempt' = attempt
        /\ pc' = "dedup" => pc \in {"scrape", "cards", "backoff"}
        /\ pc = "dedup"
             => /\ pc' \in {"scrape", "summary"}
                /\ pc' = "scrape" => (page_num' = page_num + 1 /\ attempt' = 1)
                /\ pc' = "summary" => page_num = MAX_PAGES
        /\ pc' \in {"summary", "done"} => pc \in {"dedup", "summary"}
      ]_vars

\* C3 witness: page 1 left neither a row nor a snapshot, so its three
\* attempts failed, and the run is reading the cards of page 2.
C3_Witness ==
    /\ page_num = 2
    /\ pc = "cards"
    /\ table = << >>
    /\ total_rows = 0
    /\ debug = {}

\* C4: every row built by scrape_page, returned by it or appended to the
\* output table has a link and at least one of title, price and location.
C4_RetentionInvariant ==
    \A r \in Range(rows) \cup Range(page_rows) \cup Range(table) :
        /\ r.Link # None
        /\ \/ r.Property_Title # None
           \/ r.Price_Raw # None
           \/ r.Location_Info # None

\* C4 witness: a row of the table has neither title nor price; its location
\* came from the detail page.
C4_Witness ==
    \E r \in Range(table) :
        /\ r.Property_Title = None
        /\ r.Price_Raw = None
        /\ r.Location_Info # None

\* C5: a call of enrich_from_detail never ends the page attempt: whatever
\* the point at which it fails, it returns what it had computed, the result
\* is stored, the card's row is built from it and the card loop goes on with
\* the next card in the same attempt.
C5_EnrichmentFailureContained ==
    [][ FetchStep =>
          /\ pc = "cards"
          /\ pc' = "cards"
          /\ idx' = idx + 1
          /\ cards' = cards
          /\ attempt' = attempt
          /\ page_num' = page_num
          /\ failure' = "none"
          /\ LET c == cards[idx]
                 lid == listing_id_from_link(c.link)
                 f == last_fetch'[1]
                 loc == DetailPage(c.link).location
             IN  /\ f.lid = lid
                 /\ lid \in DOMAIN detail_cache'
                 /\ f.fail \in {"goto", "location"} => detail_cache'[lid] = EmptyDict
                 /\ f.fail = "rooms"
                      => detail_cache'[lid] =
                           (IF NeedLocation(c)
                            THEN [Location_Info |-> loc, Sector |-> extract_sector(loc)]
                            ELSE EmptyDict)
                 /\ rows' = IF Retained(BuildRow(c, detail_cache'[lid], page_num))
                            THEN Append(rows, BuildRow(c, detail_cache'[lid], page_num))
                            ELSE rows
      ]_vars

\* C5 witness: the latest detail fetch, made in this attempt, failed while
\* reading the rooms; the stored result holds the location alone, the card's
\* row was built from it and cards remain to be read.
C5_Witness ==
    /\ pc = "cards"
    /\ idx <= Len(cards)
    /\ last_fetch # None
    /\ last_fetch[1].fail = "rooms"
    /\ last_fetch[1].page = page_num
    /\ last_fetch[1].attempt = attempt
    /\ DOMAIN detail_cache[last_fetch[1].lid] = {"Location_Info", "Sector"}
    /\ rows # << >>
    /\ Last(rows).listing_id = last_fetch[1].lid
    /\ Last(rows).Location_Info = detail_cache[last_fetch[1].lid]["Location_Info"]

\* C6: the row built for a card has the card's title, price, area, link and
\* listing id, and the card's location, sector and room count wherever the
\* card had them.
C6_BackfillOnlyMissing ==
    [][ (CardStep /\ Len(rows') > Len(rows)) =>
          LET c == cards[idx]
              r == Last(rows')
          IN  /\ r.Property_Title = c.title
              /\ r.Price_Raw = c.price_raw
              /\ r.Area_m2 = c.area
              /\ r.Link = c.link
              /\ r.listing_id = listing_id_from_link(c.link)
              /\ c.location_info # None => r.Location_Info = c.location_info
              /\ extract_sector(c.location_info) # None
                   => r.Sector = extract_sector(c.location_info)
              /\ c.rooms # None => r.Room_Number = c.rooms
      ]_vars

\* C6 witness: the card just handled had a location without a sector, the
\* stored result holds another location, and the row has the card's
\* location and the detail page's sector.
C6_Witness ==
    /\ pc = "cards"
    /\ idx > 1
    /\ rows # << >>
    /\ LET c == cards[idx - 1]
           lid == listing_id_from_link(c.link)
       IN  /\ Last(rows).Link = c.link
           /\ c.location_info # None
           /\ extract_sector(c.location_info) = None
           /\ lid \in DOMAIN detail_cache
           /\ Get(detail_cache[lid], "Location_Info") # None
           /\ Get(detail_cache[lid], "Location_Info") # c.location_info
           /\ Last(rows).Location_Info = c.location_info
           /\ Last(rows).Sector = Get(detail_cache[lid], "Sector")
           /\ Last(rows).Sector # None

\* C7: the output table only grows at its end, and only in the dedup step,
\* by rows of the current page; the page number moves on in that same step,
\* after the surviving rows of the page are in the table.
C7_AppendOnlyTable ==
    [][ /\ IsPrefix(table, table')
        /\ table' # table
             => /\ pc = "dedup"
                /\ \A k \in (Len(table) + 1)..Len(table') :
                       table'[k] \in Range(page_rows) /\ table'[k].Page = page_num
        /\ page_num' # page_num
             => /\ pc = "dedup"
                /\ page_num' = page_num + 1
                /\ table' = table \o DedupRows(page_rows, seen_ids).unique
      ]_vars

\* C7 witness: a retry of page 2 is reading cards while the six rows of
\* page 1 are in the table.
C7_Witness ==
    /\ page_num = 2
    /\ attempt = 2
    /\ pc = "cards"
    /\ Len(table) = 6
    /\ \A r \in Range(table) : r.Page = 1

\* C8: an attempt that finds no card writes page_{n}.html and returns no
\* row; an attempt that finds cards returns the rows it retained and writes
\* page_{n}_lowrows.html exactly when they are fewer than 5; either way the
\* retry loop ends and the page is not attempted again.
C8_DiagnosticsAreNotFailures ==
    [][ /\ (pc = "scrape" /\ pc' = "dedup")
             => /\ page_rows' = << >>
                /\ debug' = debug \cup {<<"page", page_num>>}
                /\ attempt' = attempt
                /\ failure' = "none"
        /\ (pc = "cards" /\ pc' = "dedup")
             => /\ Len(cards) > 0
                /\ page_rows' = rows
                /\ debug' = IF Len(rows) < 5
                            THEN debug \cup {<<"lowrows", page_num>>}
                            ELSE debug
                /\ attempt' = attempt
                /\ failure' = "none"
        /\ debug' # debug => pc' = "dedup"
        /\ pc = "dedup" => ~(pc' \in {"scrape", "cards", "backoff"} /\ page_num' = page_num)
      ]_vars

\* C8 witness: page 1 found no card, page 2 returned between one and four
\* rows at its first attempt, and the run has reached the summary.
C8_Witness ==
    /\ pc = "summary"
    /\ attempt = 1
    /\ <<"page", 1>> \in debug
    /\ <<"lowrows", 2>> \in debug
    /\ <<"page", 2>> \notin debug
    /\ Len(page_rows) \in 1..4
    /\ Len(table) = Len(page_rows)

IdsOf(t) == {t[i].listing_id : i \in 1..Len(t)}

\* C9: total_rows is the number of rows in the table, the summary prints
\* that total and, as the cache size, the number of listing ids whose cards
\* asked for enrichment; and when page 1 has written 6 rows with 6 ids and
\* page 2 returns 3 rows with 3 ids of which one is among those 6, the table
\* holds 8 rows after page 2.
C9_SummaryTotals ==
    [][ /\ total_rows' = Len(table')
        /\ pc' = "done"
             => reported' = <<[total |-> Len(table'), cache |-> Cardinality(needed')]>>
        /\ ( /\ pc = "dedup"
             /\ page_num = 2
             /\ Len(table) = 6
             /\ \A r \in Range(table) : r.Page = 1 /\ r.listing_id # None
             /\ Cardinality(IdsOf(table)) = 6
             /\ Len(page_rows) = 3
             /\ Cardinality(IdsOf(page_rows)) = 3
             /\ Cardinality(IdsOf(page_rows) \cap IdsOf(table)) = 1 )
             => (Len(table') = 8 /\ total_rows' = 8)
      ]_vars

\* C9 witness: the run is over, page 1 wrote 6 rows and page 2 wrote 2, and
\* the summary reports 8 rows and a cache of 2 ids.
C9_Witness ==
    /\ pc = "done"
    /\ reported = <<[total |-> 8, cache |-> 2]>>
    /\ Len(table) = 8
    /\ \A k \in 1..6 : table[k].Page = 1
    /\ \A k \in 7..8 : table[k].Page = 2
    /\ Len(page_rows) = 3
    /\ needed = {<<"2">>, <<"3">>}

\* C10: a detail fetch starts only if no detail fetch was made before or the
\* latest one was followed by the pacing sleep of enrich_from_detail.
C10_PacedAfterEveryFetch ==
    [][ FetchStep => (last_fetch = None \/ last_fetch[1].slept) ]_vars

\* The card has a link and neither title nor price nor location.
LinkOnly(c) ==
    /\ c.link # None
    /\ c.title = None
    /\ c.price_raw = None
    /\ c.location_info = None

\* C11 as stated: a card with only a link adds no row, a card with a listing
\* link and a price adds one.
C11_LinkOnlyDropped ==
    [][ CardStep =>
          /\ LinkOnly(cards[idx]) => rows' = rows
          /\ (IsListingLink(cards[idx].link) /\ cards[idx].price_raw # None)
               => Len(rows') = Len(rows) + 1
      ]_vars

\* C11 amended: a card with only a link adds no row exactly when its link is
\* no listing link or the enrichment result used for it holds no location;
\* a card with a listing link and a price adds one row, with that link and
\* that price.
C11_LinkOnlyDroppedUnlessEnriched ==
    [][ CardStep =>
          LET c == cards[idx]
              lid == listing_id_from_link(c.link)
          IN  /\ LinkOnly(c)
                   => (rows' = rows
                         <=> \/ ~IsListingLink(c.link)
                             \/ Get(detail_cache'[lid], "Location_Info") = None)
              /\ (IsListingLink(c.link) /\ c.price_raw # None)
                   => /\ Len(rows') = Len(rows) + 1
                      /\ Last(rows').Link = c.link
                      /\ Last(rows').Price_Raw = c.price_raw
      ]_vars

\* C11 witness: a card with only a listing link was read and left no row,
\* and the row of the card just read has a price and neither title nor
\* location.
C11_Witness ==
    /\ pc = "cards"
    /\ idx > 1
    /\ rows # << >>
    /\ \E i \in 1..(idx - 1) :
          /\ LinkOnly(cards[i])
          /\ IsListingLink(cards[i].link)
          /\ \A r \in Range(rows) : r.Link # cards[i].link
    /\ Last(rows).Link = cards[idx - 1].link
    /\ Last(rows).Price_Raw # None
    /\ Last(rows).Property_Title = None
    /\ Last(rows).Location_Info = None

\* C12: whatever fails, the run reaches the end of the summary; the page
\* number starts at 1, never goes back, moves on by one in the dedup step of
\* the page and in no other step, and the summary starts only from the
\* dedup step of page MAX_PAGES.
C12_RunTerminates ==
    /\ <>(pc = "done")
    /\ [](page_num \in 1..MAX_PAGES)
    /\ [][ /\ page_num' \in {page_num, page_num + 1}
           /\ page_num' # page_num => pc = "dedup"
           /\ pc = "dedup" => (page_num' = page_num + 1 \/ pc' = "summary")
           /\ (pc # "summary" /\ pc' = "summary") => (pc = "dedup" /\ page_num = MAX_PAGES)
         ]_vars

\* C12 witness: the run is over although page 1 used up its attempts, a
\* detail fetch failed and the last page showed no card.
C12_Witness ==
    /\ pc = "done"
    /\ \A r \in Range(table) : r.Page # 1
    /\ <<"page", 1>> \notin debug
    /\ <<"lowrows", 1>> \notin debug
    /\ <<"page", MAX_PAGES>> \in debug
    /\ last_fetch # None
    /\ last_fetch[1].fail # "none"

\* C15: the sleep of a failed attempt a lasts 2*a + jitter with jitter in
\* [0,1); every backoff sleep is followed by attempt a + 1 of the same page;
\* an attempt that returned normally is followed by no backoff sleep.
C15_BackoffThenRetry ==
    [][ /\ pc = "backoff" =>
              /\ wait' # None
              /\ \E jitter \in 0..(JitterSteps - 1) : wait'[1] = backoff_delay(attempt, jitter)
              /\ pc' = "scrape"
              /\ page_num' = page_num
              /\ attempt' = attempt + 1
        /\ (pc \in {"scrape", "cards"} /\ pc' = "dedup") => wait' = None ]_vars

\* C16 as stated: a pass of the card loop looks an id up in detail_cache or
\* calls enrich_from_detail only if enrichment is enabled, the link gave an
\* id and the card shows no location or no room count; a card that shows a
\* location and a room count causes neither.
C16_LookupOnlyIfMissing ==
    [][ CardStep =>
          LET c == cards[idx]
          IN  /\ (lookup' # None \/ FetchStep) =>
                    /\ ENABLE_DETAIL_ENRICH
                    /\ listing_id_from_link(c.link) # None
                    /\ c.location_info = None \/ c.rooms = None
              /\ (c.location_info # None /\ c.rooms # None) =>
                    (lookup' = None /\ ~FetchStep) ]_vars

\* C16, amended: a pass of the card loop looks an id up in detail_cache or
\* calls enrich_from_detail only if enrichment is enabled, the link gave an
\* id and the card shows no location, a location that names no sector, or
\* no room count; the id looked up is the card's, and a call is made only
\* on a miss; a card that shows a location with a sector and a room count
\* causes neither a lookup nor a call.
C16_LookupOnlyIfIncomplete ==
    [][ CardStep =>
          LET c == cards[idx]
              lid == listing_id_from_link(c.link)
              complete == /\ c.location_info # None
                          /\ extract_sector(c.location_info) # None
                          /\ c.rooms # None
          IN  /\ (lookup' # None \/ FetchStep) =>
                    /\ ENABLE_DETAIL_ENRICH
                    /\ lid # None
                    /\ ~complete
                    /\ lookup' = lid
              /\ FetchStep => lid \notin DOMAIN detail_cache
              /\ complete => (lookup' = None /\ ~FetchStep) ]_vars

\* A card that shows a location without a sector and a room count has just
\* been looked up and fetched.
C16_Witness ==
    /\ pc = "cards"
    /\ idx > 1
    /\ cards[idx - 1].location_info # None
    /\ cards[idx - 1].rooms # None
    /\ extract_sector(cards[idx - 1].location_info) = None
    /\ lookup # None
    /\ lookup = listing_id_from_link(cards[idx - 1].link)
    /\ last_fetch # None
    /\ last_fetch[1].lid = lookup
    /\ last_fetch[1].page = page_num
    /\ last_fetch[1].attempt = attempt

\* The step ends an attempt of a page with an exception.
AttemptFails == pc \in {"scrape", "cards"} /\ pc' = "backoff"

\* C17: while a page is being attempted, the table and seen_ids hold
\* nothing of that page, and no step of an attempt, of its failure or of the
\* backoff changes the table, seen_ids or the row total; the failing step
\* drops the rows built so far and leaves the page's result empty and the
\* debug files as they were, and the cache never loses an entry; the page's
\* result becomes non-empty only by a normal return of scrape_page, and the
\* table grows only in the dedup step, by rows of that result.
C17_FailedAttemptLeavesNoTrace ==
    /\ [](pc \in {"scrape", "cards", "backoff"} =>
            /\ \A r \in Range(table) : r.Page < page_num
            /\ IdsOf(table) \ {None} = seen_ids
            /\ page_rows = << >>)
    /\ [][ /\ pc \in {"scrape", "cards", "backoff"} =>
                 UNCHANGED <<table, seen_ids, total_rows>>
           /\ AttemptFails =>
                 /\ rows' = << >>
                 /\ UNCHANGED <<page_rows, debug>>
           /\ \A k \in DOMAIN detail_cache :
                 k \in DOMAIN detail_cache' /\ detail_cache'[k] = detail_cache[k]
           /\ page_rows' \notin {page_rows, << >>} =>
                 (pc = "cards" /\ idx > Len(cards) /\ pc' = "dedup" /\ page_rows' = rows)
           /\ table' # table =>
                 /\ pc = "dedup"
                 /\ IsPrefix(table, table')
                 /\ \A k \in (Len(table) + 1)..Len(table') : table'[k] \in Range(page_rows) ]_vars

\* Page 1 is saved; an attempt of page 2 has fetched a listing not yet seen,
\* built a row from it and then failed.
C17_Witness ==
    /\ pc = "backoff"
    /\ page_num = 2
    /\ table # << >>
    /\ last_fetch # None
    /\ last_fetch[1].page = page_num
    /\ last_fetch[1].attempt = attempt
    /\ last_fetch[1].fail = "none"
    /\ last_fetch[1].lid \notin seen_ids
    /\ last_fetch[1].lid \in DOMAIN detail_cache
    /\ Get(detail_cache[last_fetch[1].lid], "Location_Info") # None

\* The string has no whitespace at either end and no two whitespace
\* characters in a row.
Tidy(s) ==
    /\ s # << >>
    /\ ~IsSpace(s[1])
    /\ ~IsSpace(s[Len(s)])
    /\ \A i \in 1..(Len(s) - 1) : ~(IsSpace(s[i]) /\ IsSpace(s[i + 1]))

\* C14: what clean_text returns is None or a non-empty string with no
\* whitespace at its ends and no run of two or more whitespace characters,
\* and clean_text applied to what it returned returns the same.
C14_CleanTextIdempotent ==
    /\ [](pc \in {"again", "returned"} => (ret = None \/ Tidy(ret[1])))
    /\ [][pc = "again" => ret' = ret]_vars

\* Both calls have returned "a a" for an input with a run of whitespace
\* inside and whitespace at its end.
C14_Witness ==
    /\ pc = "returned"
    /\ arg = <<<<"a", " ", "\t", "a", " ">>>>
    /\ ret = <<<<"a", " ", "a">>>>

\* The chain and the least length of a field.
ChainOf(field) ==
    CASE field = "title" -> TITLE_SELECTORS
      [] field = "location" -> LOCATION_SELECTORS
      [] field = "price" -> PRICE_SELECTORS

MinLengthOf(field) ==
    CASE field = "title" -> 3
      [] field = "location" -> 2
      [] field = "price" -> 1

\* The i-th locator of the field's chain finds an element whose normalized
\* text is long enough.
Qualifies(a, i) ==
    LET el == a.card.found[ChainOf(a.field)[i]]
    IN  /\ el # None
        /\ clean_text(el) # None
        /\ Len(clean_text(el)[1]) >= MinLengthOf(a.field)

Qualifying(a) == {i \in 1..Len(ChainOf(a.field)) : Qualifies(a, i)}

\* The result is the normalized text of the first qualifying locator.
FirstQualifyingWins(a, r) ==
    \E i \in Qualifying(a) :
        /\ \A j \in Qualifying(a) : i <= j
        /\ r = clean_text(a.card.found[ChainOf(a.field)[i]])

\* C13 as stated: the result of a field is the normalized text of the first
\* locator of its chain that finds an element whose normalized text has the
\* field's least length, locators with shorter or no text being passed
\* over; when no locator of the chain qualifies the result is absent.
C13_FirstQualifyingOrAbsent ==
    pc = "returned" =>
        IF Qualifying(arg) # {} THEN FirstQualifyingWins(arg, ret) ELSE ret = None

\* What the first anchor yields for a title: the first of its attributes
\* title and aria-label whose normalized value is not empty, if that value
\* has at least 3 characters.
AnchorTitle(anchor) ==
    LET named == {n \in {"title", "aria-label"} : clean_text(anchor[n]) # None}
        first == IF "title" \in named THEN "title" ELSE "aria-label"
    IN  IF anchor = None \/ named = {} THEN None
        ELSE IF Len(clean_text(anchor[first])[1]) >= 3 THEN clean_text(anchor[first])
        ELSE None

\* C13, amended: as stated for location and price and for a title some
\* locator qualifies for; when no locator of the title chain qualifies the
\* title is what the first anchor yields, which may be absent.
C13_FirstQualifyingOrAnchor ==
    pc = "returned" =>
        IF Qualifying(arg) # {} THEN FirstQualifyingWins(arg, ret)
        ELSE IF arg.field = "title" THEN ret = AnchorTitle(arg.card.anchor)
        ELSE ret = None

\* A title whose first locator finds a text of 3 characters that is too
\* short once normalized and whose third finds the text returned, "a b".
C13_Witness ==
    /\ pc = "returned"
    /\ arg.field = "title"
    /\ arg.card.found[TITLE_SELECTORS[1]] = <<<<" ", "a", "b">>>>
    /\ arg.card.found[TITLE_SELECTORS[3]] = <<<<"a", " ", "\t", "b">>>>
    /\ ret = <<<<"a", " ", "b">>>>

====
